---- MODULE Spec2Model ----
(***************************************************************************)
(* Model of the how-i-ai-catalog front end: the three client views         *)
(* (HomeClient, UseCasesClient, CatalogClient), the data they are mounted  *)
(* on, and the derived lists each of them memoises.                        *)
(*                                                                         *)
(* Strings are sequences of one-character strings, so that toLowerCase,    *)
(* join and includes are computed and not assumed.  null is the tuple      *)
(* Null and a missing property is the tuple Undefined: neither is a        *)
(* sequence of characters of the alphabet.  Every tools property of the    *)
(* data is an array (types.ts), so uc.tools || [] is uc.tools.             *)
(***************************************************************************)
EXTENDS Integers, Sequences, FiniteSets, TLC

\* ---------------------------------------------------------------- bounds
MaxRecords == 2      \* longest use-case list drawn freely from RecordPool
MaxBlock == 7        \* length of the use-case lists made of runs of one record each
MaxEpisodes == 2     \* longest episode list drawn from EpisodePool
MaxSelected == 2     \* most tags a TagFilter selection holds in the model
MaxIntents == 2      \* how many INTENT_CONFIG buttons the model clicks
MaxTags == 3         \* how many buttons of a TagFilter the model clicks, from the first
WideTools == 17      \* distinct tools of the wide catalog (the tool filter shows 15)
WideCategories == 8  \* distinct categories of the wide catalog (the stats show 6)

\* ------------------------------------------------------- JavaScript values
Null == <<"NULL">>
Undefined == <<"UNDEFINED">>
\* null where an object is expected (Episode.analysis, surpriseUseCase)
NullObject == [null |-> TRUE]

\* Boolean(x) for a string, null or undefined
Truthy(x) == x # Null /\ x # Undefined /\ x # <<>>

LowerChar(c) ==
  CASE c = "A" -> "a"
    [] c = "B" -> "b"
    [] c = "X" -> "x"
    [] OTHER -> c

\* String.prototype.toLowerCase
toLowerCase(s) == [i \in 1..Len(s) |-> LowerChar(s[i])]

\* String.prototype.includes: q occurs in s as a contiguous run
includes(s, q) ==
  \E i \in 0..(Len(s) - Len(q)) : SubSeq(s, i + 1, i + Len(q)) = q

\* Array.prototype.includes
arrayIncludes(arr, x) == \E i \in 1..Len(arr) : arr[i] = x

\* Array.prototype.join(" ")
RECURSIVE join(_)
join(parts) ==
  IF Len(parts) = 0 THEN <<>>
  ELSE IF Len(parts) = 1 THEN parts[1]
  ELSE parts[1] \o <<" ">> \o join(Tail(parts))

\* Array.prototype.filter(Boolean)
filterBoolean(parts) == SelectSeq(parts, LAMBDA p : Truthy(p))

Range(s) == {s[i] : i \in 1..Len(s)}

\* UTF-16 code unit order of the characters the data uses
CharCode(c) ==
  CASE c = " " -> 32
    [] c = "A" -> 65
    [] c = "B" -> 66
    [] c = "X" -> 88
    [] c = "a" -> 97
    [] c = "b" -> 98
    [] c = "c" -> 99
    [] c = "d" -> 100
    [] c = "e" -> 101
    [] c = "g" -> 103
    [] c = "h" -> 104
    [] c = "n" -> 110
    [] c = "o" -> 111
    [] c = "p" -> 112
    [] c = "r" -> 114
    [] c = "s" -> 115
    [] c = "t" -> 116
    [] c = "v" -> 118
    [] c = "w" -> 119
    [] c = "x" -> 120
    [] c = "y" -> 121
    [] c = "0" -> 48
    [] c = "1" -> 49
    [] c = "2" -> 50
    [] c = "3" -> 51

\* the default comparison of Array.prototype.sort(): s sorts before t
RECURSIVE StringLess(_, _)
StringLess(s, t) ==
  IF Len(t) = 0 THEN FALSE
  ELSE IF Len(s) = 0 THEN TRUE
  ELSE IF CharCode(s[1]) < CharCode(t[1]) THEN TRUE
  ELSE IF CharCode(s[1]) > CharCode(t[1]) THEN FALSE
  ELSE StringLess(Tail(s), Tail(t))

\* Array.prototype.sort with a consistent comparator (stable since ES2019);
\* before[i, j] says that the comparator puts s[i] before s[j].  Element i
\* lands after every element that sorts before it and after every earlier
\* element that compares equal to it.
StableSort(s, before) ==
  LET cmp == before
      rank == [i \in 1..Len(s) |->
                 1 + Cardinality({j \in 1..Len(s) :
                                    \/ cmp[j, i]
                                    \/ ~cmp[i, j] /\ j < i})]
  IN [k \in 1..Len(s) |-> s[CHOOSE i \in 1..Len(s) : rank[i] = k]]

\* the default sort of an array of strings
SortStrings(s) == StableSort(s, [i, j \in 1..Len(s) |-> StringLess(s[i], s[j])])

\* Array.from(new Set(values)): distinct values in first-insertion order
RECURSIVE Distinct(_)
Distinct(s) ==
  IF Len(s) = 0 THEN <<>>
  ELSE LET init == Distinct(SubSeq(s, 1, Len(s) - 1))
       IN IF arrayIncludes(init, s[Len(s)]) THEN init ELSE Append(init, s[Len(s)])

\* Object.entries(counts) after counts[k] = (counts[k] || 0) + 1 for each k of
\* keys in turn: a <<key, count>> pair for each distinct key, in the order of
\* first insertion (the keys of the data are not integer-like)
CountEntries(keys) ==
  LET ks == Distinct(keys)
  IN [i \in 1..Len(ks) |->
        <<ks[i], Cardinality({j \in 1..Len(keys) : keys[j] = ks[i]})>>]

\* SortByCount with entries of equal count in reverse insertion order
SortByCountTiesReversed(entries) ==
  LET rev == [i \in 1..Len(entries) |-> entries[Len(entries) + 1 - i]]
  IN StableSort(rev, [i, j \in 1..Len(rev) |-> rev[j][2] - rev[i][2] < 0])

\* entries.sort((a, b) => b[1] - a[1])
SortByCount(entries) ==
  StableSort(entries, [i, j \in 1..Len(entries) |-> entries[j][2] - entries[i][2] < 0])

\* ------------------------------------------------------------ vocabulary
Everyone == <<"e", "v", "e", "r", "y", "o", "n", "e">>
Other == <<"o", "t", "h", "e", "r">>
Designer == <<"d", "e", "s">>
Engineer == <<"e", "n", "g">>
Coding == <<"c", "o">>
Writing == <<"w", "r">>
Python == <<"p">>
Excel == <<"e">>
Easy == <<"e", "a">>
Hard == <<"h", "a">>

\* the ids of INTENT_CONFIG; an id is never searched in, so it is one chunk
INTENT_CONFIG ==
  << <<"ship-faster">>, <<"automate">>, <<"tinker">>, <<"get-inspired">>,
     <<"level-up">>, <<"think-strategically">> >>

CARDS_PER_CATEGORY == 6
PICKS_INITIAL == 6

\* ------------------------------------------------ data loading (lib/data.ts)
\* getAllTools: the distinct tools_mentioned of the episodes, sorted
getAllTools(eps) ==
  LET RECURSIVE Collect(_)
      Collect(es) ==
        IF Len(es) = 0 THEN <<>>
        ELSE (IF es[1].analysis # NullObject THEN es[1].analysis.tools_mentioned ELSE <<>>)
             \o Collect(Tail(es))
  IN SortStrings(Distinct(Collect(eps)))

\* getAllCategories: the distinct truthy categories of the use cases, sorted
getAllCategories(ucs) ==
  SortStrings(Distinct(SelectSeq([i \in 1..Len(ucs) |-> ucs[i].category], Truthy)))

\* getAllAudiences: the distinct truthy audiences of the use cases, sorted
getAllAudiences(ucs) ==
  SortStrings(Distinct(SelectSeq([i \in 1..Len(ucs) |-> ucs[i].audience], Truthy)))

\* UseCasesPage: allDifficulties
getAllDifficulties(ucs) ==
  SortStrings(Distinct(SelectSeq([i \in 1..Len(ucs) |-> ucs[i].difficulty], Truthy)))

\* EpisodesPage: [...episodes].sort by publish_date, newest first.  The dates
\* are digit strings, for which localeCompare orders as the code units do.
SortNewestFirst(eps) ==
  StableSort(eps, [i, j \in 1..Len(eps) |->
                     StringLess(eps[j].publish_date, eps[i].publish_date)])

\* ------------------------------------------------------ HomeClient (filter)
\* HomeSearchable without the toLowerCase of the joined string
HomeSearchableCaseSensitive(uc) ==
  join(filterBoolean(
    <<uc.title, uc.one_liner, uc.description, uc.guest_name, uc.episode_title>>
    \o uc.tools
    \o <<uc.category>>))

\* the string the home view searches in
HomeSearchable(uc) ==
  toLowerCase(join(filterBoolean(
    <<uc.title, uc.one_liner, uc.description, uc.guest_name, uc.episode_title>>
    \o uc.tools
    \o <<uc.category>>)))

\* HomePasses with the criteria combined by OR instead of AND
HomePassesAnyCriterion(uc, q, role, intent) ==
  \/ ~Truthy(role) /\ ~Truthy(intent) /\ ~Truthy(q)
  \/ Truthy(role) /\ (uc.audience = role \/ uc.audience = Everyone)
  \/ Truthy(intent) /\ uc.intents # Undefined /\ arrayIncludes(uc.intents, intent)
  \/ Truthy(q) /\ includes(HomeSearchable(uc), q)

\* HomePasses without the "if (selectedRole)" guard
HomePassesRoleAlwaysActive(uc, q, role, intent) ==
  IF uc.audience # role /\ uc.audience # Everyone THEN FALSE
  ELSE IF Truthy(intent)
          /\ ~(uc.intents # Undefined /\ arrayIncludes(uc.intents, intent)) THEN FALSE
  ELSE IF Truthy(q) /\ ~includes(HomeSearchable(uc), q) THEN FALSE
  ELSE TRUE

\* HomePasses without the "everyone" wildcard
HomePassesNoWildcard(uc, q, role, intent) ==
  IF Truthy(role) /\ uc.audience # role THEN FALSE
  ELSE IF Truthy(intent)
          /\ ~(uc.intents # Undefined /\ arrayIncludes(uc.intents, intent)) THEN FALSE
  ELSE IF Truthy(q) /\ ~includes(HomeSearchable(uc), q) THEN FALSE
  ELSE TRUE

\* HomePasses where a record without an intents property passes the intent filter
HomePassesAbsentIntents(uc, q, role, intent) ==
  IF Truthy(role) /\ uc.audience # role /\ uc.audience # Everyone THEN FALSE
  ELSE IF Truthy(intent) /\ uc.intents # Undefined
          /\ ~arrayIncludes(uc.intents, intent) THEN FALSE
  ELSE IF Truthy(q) /\ ~includes(HomeSearchable(uc), q) THEN FALSE
  ELSE TRUE

\* the callback of useCases.filter in HomeClient.filtered; q is the lowercased term
HomePasses(uc, q, role, intent) ==
  IF Truthy(role) /\ uc.audience # role /\ uc.audience # Everyone THEN FALSE
  ELSE IF Truthy(intent)
          /\ ~(uc.intents # Undefined /\ arrayIncludes(uc.intents, intent)) THEN FALSE
  ELSE IF Truthy(q) /\ ~includes(HomeSearchable(uc), q) THEN FALSE
  ELSE TRUE

\* HomeFiltered with the matches collected in reverse
HomeFilteredReversed(ucs, srch, role, intent) ==
  LET q == toLowerCase(srch)
      kept == SelectSeq(ucs, LAMBDA uc : HomePasses(uc, q, role, intent))
  IN [i \in 1..Len(kept) |-> kept[Len(kept) + 1 - i]]

\* HomeClient.filtered
HomeFiltered(ucs, srch, role, intent) ==
  LET q == toLowerCase(srch)
  IN SelectSeq(ucs, LAMBDA uc : HomePasses(uc, q, role, intent))

\* HomeClient.picks: the picks of the whole catalog (rendered nowhere)
Picks(ucs) == SelectSeq(ucs, LAMBDA uc : uc.is_pick)

\* HomeClient.filteredPicks
FilteredPicks(recs) == SelectSeq(recs, LAMBDA uc : uc.is_pick)

\* GroupEntries without the "other" fallback: a record is filed under its
\* category as it is
RECURSIVE GroupEntriesNoFallback(_)
GroupEntriesNoFallback(recs) ==
  IF Len(recs) = 0 THEN <<>>
  ELSE LET init == GroupEntriesNoFallback(SubSeq(recs, 1, Len(recs) - 1))
           uc == recs[Len(recs)]
           cat == uc.category
       IN IF \E i \in 1..Len(init) : init[i][1] = cat
          THEN [i \in 1..Len(init) |->
                  IF init[i][1] = cat THEN <<cat, Append(init[i][2], uc)>> ELSE init[i]]
          ELSE Append(init, <<cat, <<uc>>>>)

\* HomeClient.grouped, before the sort: the entries of the groups object in
\* insertion order, which is the order of Object.entries for keys that are not
\* integer-like (the categories of the data are words)
RECURSIVE GroupEntries(_)
GroupEntries(recs) ==
  IF Len(recs) = 0 THEN <<>>
  ELSE LET init == GroupEntries(SubSeq(recs, 1, Len(recs) - 1))
           uc == recs[Len(recs)]
           cat == IF Truthy(uc.category) THEN uc.category ELSE Other
       IN IF \E i \in 1..Len(init) : init[i][1] = cat
          THEN [i \in 1..Len(init) |->
                  IF init[i][1] = cat THEN <<cat, Append(init[i][2], uc)>> ELSE init[i]]
          ELSE Append(init, <<cat, <<uc>>>>)

\* Grouped without the sort by size
GroupedUnsorted(recs) == GroupEntries(recs)

\* Grouped with the entries taken in reverse insertion order before the sort
GroupedTiesReversed(recs) ==
  LET ins == GroupEntries(recs)
      entries == [i \in 1..Len(ins) |-> ins[Len(ins) + 1 - i]]
  IN StableSort(entries, [i, j \in 1..Len(entries) |->
                            Len(entries[j][2]) - Len(entries[i][2]) < 0])

\* HomeClient.grouped
Grouped(recs) ==
  LET entries == GroupEntries(recs)
  IN StableSort(entries, [i, j \in 1..Len(entries) |->
                            Len(entries[j][2]) - Len(entries[i][2]) < 0])

\* HomeClient.totalCategories: the size of the Set of the categories
totalCategories(ucs) == Len(Distinct([i \in 1..Len(ucs) |-> ucs[i].category]))

\* Array.prototype.slice(0, end)
slice(arr, end) == SubSeq(arr, 1, IF end < Len(arr) THEN end ELSE Len(arr))

\* VisibleCards with the expansion of the category ignored
VisibleCardsNeverExpanded(categoryUseCases, isExpanded) ==
  slice(categoryUseCases, CARDS_PER_CATEGORY)

\* the cards rendered in a category section: visible
VisibleCards(categoryUseCases, isExpanded) ==
  LET visibleCount == IF isExpanded THEN Len(categoryUseCases) ELSE CARDS_PER_CATEGORY
  IN slice(categoryUseCases, visibleCount)

\* the cards rendered in the picks section
VisiblePicks(picks, showAll) == IF showAll THEN picks ELSE slice(picks, PICKS_INITIAL)

\* --------------------------------------------------- UseCasesClient (filter)
UseCasesSearchable(uc) ==
  toLowerCase(join(filterBoolean(
    <<uc.title, uc.description, uc.guest_name, uc.episode_title>> \o uc.tools)))

\* UseCasesPasses without the "length > 0" guards of the selections
UseCasesPassesEmptyMatchesNothing(uc, q, role, cats, diffs) ==
  IF Truthy(q) /\ ~includes(UseCasesSearchable(uc), q) THEN FALSE
  ELSE IF ~arrayIncludes(cats, uc.category) THEN FALSE
  ELSE IF ~arrayIncludes(diffs, uc.difficulty) THEN FALSE
  ELSE IF Truthy(role) /\ uc.audience # role /\ uc.audience # Everyone THEN FALSE
  ELSE TRUE

\* the callback of useCases.filter in UseCasesClient.filtered
UseCasesPasses(uc, q, role, cats, diffs) ==
  IF Truthy(q) /\ ~includes(UseCasesSearchable(uc), q) THEN FALSE
  ELSE IF Len(cats) > 0 /\ ~arrayIncludes(cats, uc.category) THEN FALSE
  ELSE IF Len(diffs) > 0 /\ ~arrayIncludes(diffs, uc.difficulty) THEN FALSE
  ELSE IF Truthy(role) /\ uc.audience # role /\ uc.audience # Everyone THEN FALSE
  ELSE TRUE

\* UseCasesClient.filtered
UseCasesFiltered(ucs, srch, role, cats, diffs) ==
  LET q == toLowerCase(srch)
  IN SelectSeq(ucs, LAMBDA uc : UseCasesPasses(uc, q, role, cats, diffs))

\* ---------------------------------------------------- CatalogClient (filter)
\* ep.analysis?.f, for a string valued f
GuestName(ep) == IF ep.analysis # NullObject THEN ep.analysis.guest_name ELSE Undefined
GuestRole(ep) == IF ep.analysis # NullObject THEN ep.analysis.guest_role ELSE Undefined
Summary(ep) == IF ep.analysis # NullObject THEN ep.analysis.summary ELSE Undefined
\* ep.analysis?.tools_mentioned || []
ToolsMentioned(ep) == IF ep.analysis # NullObject THEN ep.analysis.tools_mentioned ELSE <<>>
\* ep.analysis?.use_cases || []
EpUseCases(ep) == IF ep.analysis # NullObject THEN ep.analysis.use_cases ELSE <<>>

CatalogSearchable(ep) ==
  toLowerCase(join(filterBoolean(
    <<ep.title, GuestName(ep), GuestRole(ep), Summary(ep)>>
    \o ToolsMentioned(ep)
    \o [i \in 1..Len(EpUseCases(ep)) |-> EpUseCases(ep)[i].title])))

\* CatalogPasses with "every" in place of "some" in the tool filter
CatalogPassesEveryTool(ep, q, role, tools, cats) ==
  LET epAudiences == [i \in 1..Len(EpUseCases(ep)) |-> EpUseCases(ep)[i].audience]
      epTools == ToolsMentioned(ep)
      epCategories == [i \in 1..Len(EpUseCases(ep)) |-> EpUseCases(ep)[i].category]
  IN IF Truthy(q) /\ ~includes(CatalogSearchable(ep), q) THEN FALSE
     ELSE IF Truthy(role) /\ ~arrayIncludes(epAudiences, role)
                          /\ ~arrayIncludes(epAudiences, Everyone) THEN FALSE
     ELSE IF Len(tools) > 0
             /\ ~(\A i \in 1..Len(tools) : arrayIncludes(epTools, tools[i])) THEN FALSE
     ELSE IF Len(cats) > 0
             /\ ~(\E i \in 1..Len(cats) : arrayIncludes(epCategories, cats[i])) THEN FALSE
     ELSE TRUE

\* CatalogPasses without the "everyone" wildcard in the role filter
CatalogPassesNoWildcard(ep, q, role, tools, cats) ==
  LET epAudiences == [i \in 1..Len(EpUseCases(ep)) |-> EpUseCases(ep)[i].audience]
      epTools == ToolsMentioned(ep)
      epCategories == [i \in 1..Len(EpUseCases(ep)) |-> EpUseCases(ep)[i].category]
  IN IF Truthy(q) /\ ~includes(CatalogSearchable(ep), q) THEN FALSE
     ELSE IF Truthy(role) /\ ~arrayIncludes(epAudiences, role) THEN FALSE
     ELSE IF Len(tools) > 0
             /\ ~(\E i \in 1..Len(tools) : arrayIncludes(epTools, tools[i])) THEN FALSE
     ELSE IF Len(cats) > 0
             /\ ~(\E i \in 1..Len(cats) : arrayIncludes(epCategories, cats[i])) THEN FALSE
     ELSE TRUE

\* CatalogPasses asking, when a role and categories are both selected, for one
\* use case that matches both
CatalogPassesSameUseCase(ep, q, role, tools, cats) ==
  LET ucs == EpUseCases(ep)
      epAudiences == [i \in 1..Len(ucs) |-> ucs[i].audience]
      epTools == ToolsMentioned(ep)
      epCategories == [i \in 1..Len(ucs) |-> ucs[i].category]
  IN IF Truthy(q) /\ ~includes(CatalogSearchable(ep), q) THEN FALSE
     ELSE IF Truthy(role) /\ ~arrayIncludes(epAudiences, role)
                          /\ ~arrayIncludes(epAudiences, Everyone) THEN FALSE
     ELSE IF Len(tools) > 0
             /\ ~(\E i \in 1..Len(tools) : arrayIncludes(epTools, tools[i])) THEN FALSE
     ELSE IF Len(cats) > 0
             /\ ~(\E i \in 1..Len(cats) : arrayIncludes(epCategories, cats[i])) THEN FALSE
     ELSE IF Truthy(role) /\ Len(cats) > 0
             /\ ~(\E k \in 1..Len(ucs) :
                    /\ ucs[k].audience = role \/ ucs[k].audience = Everyone
                    /\ arrayIncludes(cats, ucs[k].category)) THEN FALSE
     ELSE TRUE

\* the callback of episodes.filter in CatalogClient.filtered
CatalogPasses(ep, q, role, tools, cats) ==
  LET epAudiences == [i \in 1..Len(EpUseCases(ep)) |-> EpUseCases(ep)[i].audience]
      epTools == ToolsMentioned(ep)
      epCategories == [i \in 1..Len(EpUseCases(ep)) |-> EpUseCases(ep)[i].category]
  IN IF Truthy(q) /\ ~includes(CatalogSearchable(ep), q) THEN FALSE
     ELSE IF Truthy(role) /\ ~arrayIncludes(epAudiences, role)
                          /\ ~arrayIncludes(epAudiences, Everyone) THEN FALSE
     ELSE IF Len(tools) > 0
             /\ ~(\E i \in 1..Len(tools) : arrayIncludes(epTools, tools[i])) THEN FALSE
     ELSE IF Len(cats) > 0
             /\ ~(\E i \in 1..Len(cats) : arrayIncludes(epCategories, cats[i])) THEN FALSE
     ELSE TRUE

\* CatalogClient.filtered
CatalogFiltered(eps, srch, role, tools, cats) ==
  LET q == toLowerCase(srch)
  IN SelectSeq(eps, LAMBDA ep : CatalogPasses(ep, q, role, tools, cats))

\* Mentions with a tool counted once for an episode that lists it twice
RECURSIVE MentionsOncePerEpisode(_)
MentionsOncePerEpisode(eps) ==
  IF Len(eps) = 0 THEN <<>>
  ELSE Distinct(ToolsMentioned(eps[1])) \o MentionsOncePerEpisode(Tail(eps))

\* the tools_mentioned of the episodes, in the order the loops visit them
RECURSIVE Mentions(_)
Mentions(eps) ==
  IF Len(eps) = 0 THEN <<>> ELSE ToolsMentioned(eps[1]) \o Mentions(Tail(eps))

\* CatalogClient.topTools: the counts object
counts(eps) == CountEntries(Mentions(eps))

\* CatalogClient.topTools: the entries of counts sorted by count, cut to 15,
\* mapped to the tool
TopTools(eps) ==
  LET cut == slice(SortByCount(counts(eps)), 15)
  IN [i \in 1..Len(cut) |-> cut[i][1]]

\* ------------------------------------------------------------------- Stats
\* Stats: toolCounts, as entries
toolCounts(eps) == CountEntries(Mentions(eps))

\* Stats: topTools
StatsTopTools(eps) == slice(SortByCount(toolCounts(eps)), 8)

\* Stats: catCounts, as entries: only a truthy category is counted
catCounts(ucs) ==
  CountEntries(SelectSeq([i \in 1..Len(ucs) |-> ucs[i].category], Truthy))

\* Stats: topCategories
StatsTopCategories(ucs) == slice(SortByCount(catCounts(ucs)), 6)

\* toggle adding the tag whether it is selected or not
toggleAlwaysAdds(selected, tag) == Append(selected, tag)

\* TagFilter.toggle: the array handed to onChange
toggle(selected, tag) ==
  IF arrayIncludes(selected, tag)
  THEN SelectSeq(selected, LAMBDA t : t # tag)
  ELSE Append(selected, tag)

\* ------------------------------------------------------------ the data sets
\* a UseCase of episodes-analyzed.json
UseCase(title, one_liner, description, tools, category, audience, difficulty, intents, is_pick) ==
  [title |-> title, one_liner |-> one_liner, description |-> description,
   tools |-> tools, category |-> category, audience |-> audience,
   difficulty |-> difficulty, intents |-> intents, is_pick |-> is_pick]

\* a UseCaseFlat of use-cases.json: the use case and the fields of its episode
Flat(uc, episode_id, episode_title, guest_name) ==
  [title |-> uc.title, one_liner |-> uc.one_liner, description |-> uc.description,
   tools |-> uc.tools, category |-> uc.category, audience |-> uc.audience,
   difficulty |-> uc.difficulty, intents |-> uc.intents, is_pick |-> uc.is_pick,
   episode_id |-> episode_id, episode_title |-> episode_title,
   guest_name |-> guest_name]

U1 == UseCase(<<"A", "b">>, Null, <<"a">>, <<>>, Coding, Everyone, Easy,
              << <<"ship-faster">> >>, TRUE)
U2 == UseCase(<<"b">>, <<"x">>, <<>>, <<Python>>, Coding, Designer, Hard,
              Undefined, FALSE)
U3 == UseCase(<<"b">>, Null, <<>>, <<Python, Excel>>, Writing, Engineer, Easy,
              <<>>, TRUE)
U4 == UseCase(<<"a">>, Null, <<>>, <<>>, <<>>, <<>>, <<>>,
              << <<"automate">>, <<"ship-faster">> >>, FALSE)
U5 == UseCase(<<"B">>, <<"a", " ", "X">>, <<>>, <<Excel>>, Other, Everyone, Hard,
              << <<"automate">> >>, FALSE)

R1 == Flat(U1, <<"1">>, <<"b">>, Null)
R2 == Flat(U2, <<"1">>, <<"b">>, <<"A">>)
R3 == Flat(U3, <<"2">>, <<>>, Null)
R4 == Flat(U4, <<"2">>, <<>>, Null)
R5 == Flat(U5, <<"3">>, <<"x">>, <<"b">>)

\* a catalog of three records: two of the category "coding", for everyone and
\* for designers, and one of the category "writing" for everyone
U6 == UseCase(<<"b">>, Null, <<>>, <<>>, Writing, Everyone, Hard, <<>>, FALSE)
R6 == Flat(U6, <<"2">>, <<>>, Null)
ThreeRecords == <<R1, R2, R6>>

\* the records the short lists are drawn from; R3 and R5 come with the block
\* lists and with the use cases of the episodes
RecordPool == {R1, R2, R4}

Analysis(guest_name, guest_role, summary, use_cases, tools_mentioned) ==
  [guest_name |-> guest_name, guest_role |-> guest_role, summary |-> summary,
   use_cases |-> use_cases, tools_mentioned |-> tools_mentioned]

Episode(id, title, publish_date, analysis) ==
  [id |-> id, title |-> title, publish_date |-> publish_date, analysis |-> analysis]

E1 == Episode(<<"1">>, <<"A">>, <<"2">>,
              Analysis(<<"b">>, Null, <<"x">>, <<U2, U3>>, <<Python>>))
E2 == Episode(<<"2">>, <<"b">>, <<"3">>,
              Analysis(Null, <<"a">>, Null, <<U1>>, <<Python, Excel>>))
E3 == Episode(<<"3">>, <<"a">>, <<"1">>, NullObject)
E4 == Episode(<<"4">>, <<"x">>, <<"3">>,
              Analysis(<<"A">>, Null, Null, <<U4, U5>>, <<Excel>>))

EpisodePool == {E1, E2, E3, E4}

\* an episode of the file from which the required title is missing: JSON.parse
\* returns the object as it is, and reading the property yields undefined
E5 == Episode(<<"5">>, Undefined, <<"2">>,
              Analysis(<<"A">>, Null, Null, <<U2>>, <<Python>>))

\* a file that holds the episode without a title between well-formed ones
MalformedEpisodes == <<E5, E2, E1>>

SeqsUpTo(S, n) == UNION {[1..k -> S] : k \in 0..n}

\* k copies of x
Rep(x, k) == [i \in 1..k |-> x]

\* use-cases.json as the pipeline writes it for the episodes: the use cases
\* of each episode in turn
RECURSIVE FlattenEpisodes(_)
FlattenEpisodes(eps) ==
  IF Len(eps) = 0 THEN <<>>
  ELSE LET ep == eps[1]
       IN [i \in 1..Len(EpUseCases(ep)) |->
             Flat(EpUseCases(ep)[i], ep.id, ep.title, GuestName(ep))]
          \o FlattenEpisodes(Tail(eps))

\* lists long enough to fill a category past CARDS_PER_CATEGORY: MaxBlock
\* records, a run of R3 followed by a run of R1, and then R2 or nothing
BlockLists ==
  {Rep(R3, p[1]) \o Rep(R1, p[2]) \o Rep(R2, p[3]) :
     p \in {q \in (0..MaxBlock) \X (0..MaxBlock) \X (0..1) :
              q[1] + q[2] + q[3] = MaxBlock}}

\* the n-th name of a family of two-character names
Name(n) ==
  << <<"a", "b", "c", "d", "e", "g", "h", "n", "o", "p">>[((n - 1) \div 4) + 1],
     <<"0", "1", "2", "3">>[((n - 1) % 4) + 1] >>

\* a use case of the category Name(n)
WideUseCase(n) ==
  UseCase(<<"b">>, Null, <<>>, <<>>, Name(n), Everyone, Easy, <<>>, FALSE)

\* a catalog with more tools than the tool filter shows and more categories
\* than the stats show: the older episode is the first of the file, each
\* episode mentions more than half of the tools, two tools are mentioned by
\* both and the older episode lists its first tool twice; the categories
\* likewise, each use case having one
WideOlder ==
  Episode(<<"1">>, <<"a">>, <<"1">>,
          Analysis(Null, Null, Null,
                   [i \in 1..(WideCategories \div 2) |-> WideUseCase(i)],
                   <<Name(1)>> \o [i \in 1..((WideTools \div 2) + 1) |-> Name(i)]))
WideNewer ==
  Episode(<<"2">>, <<"b">>, <<"2">>,
          Analysis(Null, Null, Null,
                   [i \in 1..((WideCategories \div 2) + 2) |->
                      WideUseCase(i + (WideCategories \div 2) - 2)],
                   [i \in 1..(WideTools - (WideTools \div 2) + 1) |->
                      Name(i + (WideTools \div 2) - 1)]))
WideEpisodes == <<WideOlder, WideNewer>>

\* a list with two categories past CARDS_PER_CATEGORY
TwoFullGroups == Rep(R3, MaxBlock) \o Rep(R1, MaxBlock)

\* the episode lists: no episode is in the file twice (an id is a React key)
EpisodeLists ==
  {eps \in SeqsUpTo(EpisodePool, MaxEpisodes) :
     \A i, j \in 1..Len(eps) : i # j => eps[i] # eps[j]}

\* the contents of use-cases.json and episodes-analyzed.json
Datasets ==
  {[useCases |-> ucs, episodes |-> <<>>] :
     ucs \in SeqsUpTo(RecordPool, MaxRecords) \cup BlockLists
               \cup {TwoFullGroups, ThreeRecords}}
  \cup
  {[useCases |-> FlattenEpisodes(eps), episodes |-> eps] :
     eps \in EpisodeLists \cup {WideEpisodes, MalformedEpisodes}}

\* what the user types in the SearchBar
SearchTerms == {<<>>, <<"A">>, <<"a", " ">>, <<"x">>, <<"c", "o">>}

\* ------------------------------------------------------------------- state
\* One page is mounted at a time; the query variables are the useState cells
\* of the client component of that page, the derived variables its useMemo
\* cells and the props the page computed for it.
VARIABLES
  useCases,             \* what getUseCases() returned
  episodes,             \* what getEpisodes() returned
  view,                 \* "none", "home", "usecases" or "episodes"
  sorted,               \* EpisodesPage: the episodes prop of CatalogClient
  allCategories,        \* props of the mounted client
  allDifficulties,
  allAudiences,
  topTools,             \* CatalogClient.topTools
  search,
  selectedRole,
  selectedIntent,
  selectedTools,
  selectedCategories,
  selectedDifficulties,
  expandedCategories,
  surpriseUseCase,
  showAllPicks,
  filtered,             \* the filtered memo of the mounted client
  filteredPicks,        \* HomeClient.filteredPicks
  grouped               \* HomeClient.grouped

data == <<useCases, episodes>>
props == <<sorted, allCategories, allDifficulties, allAudiences, topTools>>
query == <<search, selectedRole, selectedIntent, selectedTools, selectedCategories,
           selectedDifficulties>>
display == <<expandedCategories, surpriseUseCase, showAllPicks>>
memos == <<filtered, filteredPicks, grouped>>
vars == <<data, view, props, query, display, memos>>

\* surpriseUseCase after pool[0] of an empty pool
UndefinedObject == [undefined |-> TRUE]

Init ==
  /\ \E d \in Datasets : useCases = d.useCases /\ episodes = d.episodes
  /\ view = "none"
  /\ sorted = <<>>
  /\ allCategories = <<>>
  /\ allDifficulties = <<>>
  /\ allAudiences = <<>>
  /\ topTools = <<>>
  /\ search = <<>>
  /\ selectedRole = Null
  /\ selectedIntent = Null
  /\ selectedTools = <<>>
  /\ selectedCategories = <<>>
  /\ selectedDifficulties = <<>>
  /\ expandedCategories = {}
  /\ surpriseUseCase = NullObject
  /\ showAllPicks = FALSE
  /\ filtered = <<>>
  /\ filteredPicks = <<>>
  /\ grouped = <<>>

\* the useState initial values of a client component
InitialClientState ==
  /\ search' = <<>>
  /\ selectedRole' = Null
  /\ selectedIntent' = Null
  /\ selectedTools' = <<>>
  /\ selectedCategories' = <<>>
  /\ selectedDifficulties' = <<>>
  /\ expandedCategories' = {}
  /\ surpriseUseCase' = NullObject
  /\ showAllPicks' = FALSE

\* app/page.tsx: Home renders HomeClient on the loaded use cases
RenderHome ==
  /\ view = "none"
  /\ view' = "home"
  /\ InitialClientState
  /\ allAudiences' = getAllAudiences(useCases)
  /\ filtered' = HomeFiltered(useCases, <<>>, Null, Null)
  /\ filteredPicks' = FilteredPicks(filtered')
  /\ grouped' = Grouped(filtered')
  /\ UNCHANGED <<data, sorted, allCategories, allDifficulties, topTools>>

\* app/use-cases/page.tsx: UseCasesPage renders UseCasesClient
RenderUseCasesPage ==
  /\ view = "none"
  /\ view' = "usecases"
  /\ InitialClientState
  /\ allCategories' = getAllCategories(useCases)
  /\ allDifficulties' = getAllDifficulties(useCases)
  /\ allAudiences' = getAllAudiences(useCases)
  /\ filtered' = UseCasesFiltered(useCases, <<>>, Null, <<>>, <<>>)
  /\ UNCHANGED <<data, sorted, topTools, filteredPicks, grouped>>

\* RenderEpisodesPage with episodes.sort(...) in place of [...episodes].sort(...)
RenderEpisodesPageSortsInPlace ==
  /\ view = "none"
  /\ view' = "episodes"
  /\ InitialClientState
  /\ episodes' = SortNewestFirst(episodes)
  /\ sorted' = episodes'
  /\ allCategories' = getAllCategories(useCases)
  /\ allAudiences' = getAllAudiences(useCases)
  /\ topTools' = TopTools(sorted')
  /\ filtered' = CatalogFiltered(sorted', <<>>, Null, <<>>, <<>>)
  /\ UNCHANGED <<useCases, allDifficulties, filteredPicks, grouped>>

\* EpisodesPage renders CatalogClient on a sorted copy of the episodes
RenderEpisodesPage ==
  /\ view = "none"
  /\ view' = "episodes"
  /\ InitialClientState
  /\ sorted' = SortNewestFirst(episodes)
  /\ allCategories' = getAllCategories(useCases)
  /\ allAudiences' = getAllAudiences(useCases)
  /\ topTools' = TopTools(sorted')
  /\ filtered' = CatalogFiltered(sorted', <<>>, Null, <<>>, <<>>)
  /\ UNCHANGED <<data, allDifficulties, filteredPicks, grouped>>

\* the dependency list of the filtered memo of the mounted client
FilteredDeps ==
  CASE view = "home" -> <<useCases, search, selectedRole, selectedIntent>>
    [] view = "usecases" ->
         <<useCases, search, selectedRole, selectedCategories, selectedDifficulties>>
    [] view = "episodes" ->
         <<sorted, search, selectedRole, selectedTools, selectedCategories>>
    [] OTHER -> <<>>

\* the body of the filtered memo of the mounted client, on the new state
ComputeFiltered ==
  CASE view = "home" -> HomeFiltered(useCases', search', selectedRole', selectedIntent')
    [] view = "usecases" ->
         UseCasesFiltered(useCases', search', selectedRole', selectedCategories',
                          selectedDifficulties')
    [] view = "episodes" ->
         CatalogFiltered(sorted', search', selectedRole', selectedTools',
                         selectedCategories')
    [] OTHER -> <<>>

\* Rerender showing picks, the picks of the whole catalog, as the picks view
RerenderPicksOfCatalog ==
  /\ filtered' = IF FilteredDeps' = FilteredDeps THEN filtered ELSE ComputeFiltered
  /\ filteredPicks' = IF view = "home" THEN Picks(useCases') ELSE filteredPicks
  /\ grouped' = IF view = "home" /\ filtered' # filtered
                THEN Grouped(filtered') ELSE grouped

\* Rerender with the groups and the picks kept from the render before unless
\* the number of records in the result changed
RerenderKeepsViewsOfSameSize ==
  /\ filtered' = IF FilteredDeps' = FilteredDeps THEN filtered ELSE ComputeFiltered
  /\ filteredPicks' = IF view = "home" /\ Len(filtered') # Len(filtered)
                      THEN FilteredPicks(filtered') ELSE filteredPicks
  /\ grouped' = IF view = "home" /\ Len(filtered') # Len(filtered)
                THEN Grouped(filtered') ELSE grouped

\* the render that follows a state update: every useMemo whose dependencies
\* changed runs again, the others keep their value
Rerender ==
  /\ filtered' = IF FilteredDeps' = FilteredDeps THEN filtered ELSE ComputeFiltered
  /\ filteredPicks' = IF view = "home" /\ filtered' # filtered
                      THEN FilteredPicks(filtered') ELSE filteredPicks
  /\ grouped' = IF view = "home" /\ filtered' # filtered
                THEN Grouped(filtered') ELSE grouped

\* SetSearch that closes the sampled record when the new result leaves it out
SetSearchDropsStaleSample(s) ==
  /\ view # "none"
  /\ s # search
  /\ search' = s
  /\ UNCHANGED <<data, view, props, selectedRole, selectedIntent, selectedTools,
                 selectedCategories, selectedDifficulties, expandedCategories,
                 showAllPicks>>
  /\ Rerender
  /\ surpriseUseCase' = IF view = "home" /\ ~arrayIncludes(filtered', surpriseUseCase)
                        THEN NullObject ELSE surpriseUseCase

\* SearchBar onChange -> setSearch
SetSearch(s) ==
  /\ view # "none"
  /\ s # search
  /\ search' = s
  /\ UNCHANGED <<data, view, props, selectedRole, selectedIntent, selectedTools,
                 selectedCategories, selectedDifficulties, display>>
  /\ Rerender

\* the roles prop of RolePicker: allAudiences.filter((a) => a !== "everyone")
Roles == SelectSeq(allAudiences, LAMBDA a : a # Everyone)

\* SetSelectedRole with the category and difficulty options of the use-cases
\* view taken from the new result and not from the catalog
SetSelectedRoleOptionsOfResult(r) ==
  /\ view # "none"
  /\ r # selectedRole
  /\ selectedRole' = r
  /\ UNCHANGED <<data, view, sorted, allAudiences, topTools, search, selectedIntent,
                 selectedTools, selectedCategories, selectedDifficulties, display>>
  /\ Rerender
  /\ allCategories' = IF view = "usecases" THEN getAllCategories(filtered')
                      ELSE allCategories
  /\ allDifficulties' = IF view = "usecases" THEN getAllDifficulties(filtered')
                        ELSE allDifficulties

\* RolePicker onChange -> setSelectedRole, and "Show all roles" -> null
SetSelectedRole(r) ==
  /\ view # "none"
  /\ r # selectedRole
  /\ selectedRole' = r
  /\ UNCHANGED <<data, view, props, search, selectedIntent, selectedTools,
                 selectedCategories, selectedDifficulties, display>>
  /\ Rerender

\* an intent button: setSelectedIntent(isActive ? null : intent.id); "Show all
\* goals" is the click on the active button
ClickIntent(id) ==
  /\ view = "home"
  /\ selectedIntent' = IF selectedIntent = id THEN Null ELSE id
  /\ UNCHANGED <<data, view, props, search, selectedRole, selectedTools,
                 selectedCategories, selectedDifficulties, display>>
  /\ Rerender

\* ClearFilters leaving the intent and the selections of the tag filters as
\* they are
ClearFiltersSearchAndRole ==
  /\ \/ view = "home" /\ (Truthy(selectedRole) \/ Truthy(selectedIntent) \/ Truthy(search))
     \/ view # "none" /\ Len(filtered) = 0
  /\ search' = <<>>
  /\ selectedRole' = Null
  /\ UNCHANGED <<data, view, props, selectedIntent, selectedTools, selectedCategories,
                 selectedDifficulties, display>>
  /\ Rerender

\* "Clear filters" / "Clear all filters"
ClearFilters ==
  /\ \/ view = "home" /\ (Truthy(selectedRole) \/ Truthy(selectedIntent) \/ Truthy(search))
     \/ view # "none" /\ Len(filtered) = 0
  /\ search' = <<>>
  /\ selectedRole' = Null
  /\ selectedIntent' = IF view = "home" THEN Null ELSE selectedIntent
  /\ selectedTools' = IF view = "episodes" THEN <<>> ELSE selectedTools
  /\ selectedCategories' = IF view \in {"episodes", "usecases"} THEN <<>>
                           ELSE selectedCategories
  /\ selectedDifficulties' = IF view = "usecases" THEN <<>> ELSE selectedDifficulties
  /\ UNCHANGED <<data, view, props, display>>
  /\ Rerender

\* TagFilter "Filter by Tool" of CatalogClient
ToggleTool(tag) ==
  /\ view = "episodes"
  /\ arrayIncludes(topTools, tag)
  /\ arrayIncludes(selectedTools, tag) \/ Len(selectedTools) < MaxSelected
  /\ selectedTools' = toggle(selectedTools, tag)
  /\ UNCHANGED <<data, view, props, search, selectedRole, selectedIntent,
                 selectedCategories, selectedDifficulties, display>>
  /\ Rerender

\* TagFilter "Category" of UseCasesClient and CatalogClient
ToggleCategoryTag(tag) ==
  /\ view \in {"episodes", "usecases"}
  /\ arrayIncludes(allCategories, tag)
  /\ arrayIncludes(selectedCategories, tag) \/ Len(selectedCategories) < MaxSelected
  /\ selectedCategories' = toggle(selectedCategories, tag)
  /\ UNCHANGED <<data, view, props, search, selectedRole, selectedIntent,
                 selectedTools, selectedDifficulties, display>>
  /\ Rerender

\* TagFilter "Difficulty" of UseCasesClient
ToggleDifficulty(tag) ==
  /\ view = "usecases"
  /\ arrayIncludes(allDifficulties, tag)
  /\ arrayIncludes(selectedDifficulties, tag) \/ Len(selectedDifficulties) < MaxSelected
  /\ selectedDifficulties' = toggle(selectedDifficulties, tag)
  /\ UNCHANGED <<data, view, props, search, selectedRole, selectedIntent,
                 selectedTools, selectedCategories, display>>
  /\ Rerender

\* ToggledSet that collapses every other category when one is expanded
ToggledSetAccordion(prev, cat) == IF cat \in prev THEN prev \ {cat} ELSE {cat}

\* the updater toggleCategory hands to setExpandedCategories: a copy of prev
\* with cat deleted if it was there and added if it was not
ToggledSet(prev, cat) == IF cat \in prev THEN prev \ {cat} ELSE prev \cup {cat}

\* HomeClient.toggleCategory, from the "Show all / Show fewer" button of a
\* category section with more than CARDS_PER_CATEGORY members
toggleCategory(cat) ==
  /\ view = "home"
  /\ Len(filtered) # 0
  /\ \E i \in 1..Len(grouped) :
        grouped[i][1] = cat /\ Len(grouped[i][2]) > CARDS_PER_CATEGORY
  /\ expandedCategories' = ToggledSet(expandedCategories, cat)
  /\ UNCHANGED <<data, view, props, query, surpriseUseCase, showAllPicks>>
  /\ Rerender

\* the picks button: setShowAllPicks(!showAllPicks)
ToggleShowAllPicks ==
  /\ view = "home"
  /\ Len(filteredPicks) > PICKS_INITIAL
  /\ showAllPicks' = ~showAllPicks
  /\ UNCHANGED <<data, view, props, query, expandedCategories, surpriseUseCase>>
  /\ Rerender

\* handleSurpriseMe never drawing the record that is on display
handleSurpriseMeNoRepeat ==
  /\ view = "home"
  /\ LET pool == IF Len(filtered) > 0 THEN filtered ELSE useCases
     IN IF Len(pool) = 0
        THEN surpriseUseCase' = UndefinedObject
        ELSE \E i \in 1..Len(pool) :
                pool[i] # surpriseUseCase /\ surpriseUseCase' = pool[i]
  /\ UNCHANGED <<data, view, props, query, expandedCategories, showAllPicks>>
  /\ Rerender

\* handleSurpriseMe drawing from the whole catalog whatever the result is
handleSurpriseMeFromCatalog ==
  /\ view = "home"
  /\ LET pool == useCases
     IN IF Len(pool) = 0
        THEN surpriseUseCase' = UndefinedObject
        ELSE \E i \in 1..Len(pool) : surpriseUseCase' = pool[i]
  /\ UNCHANGED <<data, view, props, query, expandedCategories, showAllPicks>>
  /\ Rerender

\* HomeClient.handleSurpriseMe ("Surprise me" and "Try another"):
\* Math.floor(Math.random() * pool.length) is any index of the pool, and
\* index 0 of an empty pool reads undefined
handleSurpriseMe ==
  /\ view = "home"
  /\ LET pool == IF Len(filtered) > 0 THEN filtered ELSE useCases
     IN IF Len(pool) = 0
        THEN surpriseUseCase' = UndefinedObject
        ELSE \E i \in 1..Len(pool) : surpriseUseCase' = pool[i]
  /\ UNCHANGED <<data, view, props, query, expandedCategories, showAllPicks>>
  /\ Rerender

\* the close button of the surprise card: setSurpriseUseCase(null)
CloseSurprise ==
  /\ view = "home"
  /\ surpriseUseCase \notin {NullObject, UndefinedObject}
  /\ surpriseUseCase' = NullObject
  /\ UNCHANGED <<data, view, props, query, expandedCategories, showAllPicks>>
  /\ Rerender

Next ==
  \/ RenderHome
  \/ RenderUseCasesPage
  \/ RenderEpisodesPage
  \/ \E s \in SearchTerms : SetSearch(s)
  \/ \E r \in {Null} \cup Range(Roles) : SetSelectedRole(r)
  \/ \E i \in 1..MaxIntents : ClickIntent(INTENT_CONFIG[i])
  \/ ClearFilters
  \/ \E t \in Range(slice(topTools, MaxTags)) : ToggleTool(t)
  \/ \E c \in Range(slice(allCategories, MaxTags)) : ToggleCategoryTag(c)
  \/ \E d \in Range(slice(allDifficulties, MaxTags)) : ToggleDifficulty(d)
  \/ \E i \in 1..Len(grouped) : toggleCategory(grouped[i][1])
  \/ ToggleShowAllPicks
  \/ handleSurpriseMe
  \/ CloseSurprise

Spec == Init /\ [][Next]_vars

\* ===================================================================== claims
\* The criteria of the specification, stated on their own terms.

\* t occurs in s as a contiguous run of characters
Occurs(t, s) ==
  \E i \in 1..(Len(s) - Len(t) + 1) : \A k \in 1..Len(t) : s[i + k - 1] = t[k]

Lowered(s) ==
  [i \in 1..Len(s) |->
     IF s[i] = "A" THEN "a" ELSE IF s[i] = "B" THEN "b" ELSE IF s[i] = "X" THEN "x"
     ELSE s[i]]

\* the non-empty strings of a list, each followed by the separator but the last
RECURSIVE Joined(_)
Joined(fields) ==
  IF Len(fields) = 0 THEN <<>>
  ELSE LET rest == Joined(Tail(fields))
           f == fields[1]
       IN IF f = Null \/ f = Undefined \/ Len(f) = 0 THEN rest
          ELSE IF Len(rest) = 0 THEN f
          ELSE f \o <<" ">> \o rest

\* the search surface of a FlatRecord in the home view
HomeSurface(r) ==
  Lowered(Joined(<<r.title, r.one_liner, r.description, r.guest_name,
                   r.episode_title>> \o r.tools \o <<r.category>>))

\* the search surface of a FlatRecord in the use-cases view
UseCasesSurface(r) ==
  Lowered(Joined(<<r.title, r.description, r.guest_name, r.episode_title>> \o r.tools))

\* the search surface of a Container
ContainerSurface(ep) ==
  IF ep.analysis = NullObject THEN Lowered(ep.title)
  ELSE Lowered(Joined(<<ep.title, ep.analysis.guest_name, ep.analysis.guest_role,
                        ep.analysis.summary>>
                      \o ep.analysis.tools_mentioned
                      \o [i \in 1..Len(ep.analysis.use_cases) |->
                            ep.analysis.use_cases[i].title]))

NoRole == selectedRole = Null
NoIntent == selectedIntent = Null
NoSearch == search = <<>>

RoleCriterion(r) == NoRole \/ r.audience = selectedRole \/ r.audience = Everyone

IntentCriterion(r) ==
  NoIntent \/ (r.intents # Undefined /\ \E i \in 1..Len(r.intents) : r.intents[i] = selectedIntent)

HomeSearchCriterion(r) == NoSearch \/ Occurs(Lowered(search), HomeSurface(r))

UseCasesSearchCriterion(r) == NoSearch \/ Occurs(Lowered(search), UseCasesSurface(r))

CategoryCriterion(r) ==
  selectedCategories = <<>> \/ r.category \in Range(selectedCategories)

DifficultyCriterion(r) ==
  selectedDifficulties = <<>> \/ r.difficulty \in Range(selectedDifficulties)

\* the criteria of a Container
NestedUseCases(ep) == IF ep.analysis = NullObject THEN {} ELSE Range(ep.analysis.use_cases)
NestedTools(ep) == IF ep.analysis = NullObject THEN {} ELSE Range(ep.analysis.tools_mentioned)

ContainerSearchCriterion(ep) == NoSearch \/ Occurs(Lowered(search), ContainerSurface(ep))

ContainerRoleCriterion(ep) ==
  NoRole \/ \E uc \in NestedUseCases(ep) : uc.audience \in {selectedRole, Everyone}

ContainerToolCriterion(ep) ==
  selectedTools = <<>> \/ NestedTools(ep) \cap Range(selectedTools) # {}

ContainerCategoryCriterion(ep) ==
  selectedCategories = <<>>
  \/ \E uc \in NestedUseCases(ep) : uc.category \in Range(selectedCategories)

\* the members of the list at the positions idx, in the order of the list
Those(list, idx) ==
  LET nth(k) == CHOOSE i \in idx : Cardinality({j \in idx : j < i}) = k - 1
  IN [k \in 1..Cardinality(idx) |-> list[nth(k)]]

FlatView == view \in {"home", "usecases"}

\* C1: a FlatRecord of the catalog is in the evaluated result iff it passes
\* every active criterion of the mounted view (role, intent and search in the
\* home view; search, categories, difficulties and role in the use-cases view)
C1_SoundAndComplete ==
  /\ view = "home" =>
       \A i \in 1..Len(useCases) :
          (useCases[i] \in Range(filtered))
            <=> (RoleCriterion(useCases[i]) /\ IntentCriterion(useCases[i])
                 /\ HomeSearchCriterion(useCases[i]))
  /\ view = "usecases" =>
       \A i \in 1..Len(useCases) :
          (useCases[i] \in Range(filtered))
            <=> (RoleCriterion(useCases[i]) /\ UseCasesSearchCriterion(useCases[i])
                 /\ CategoryCriterion(useCases[i]) /\ DifficultyCriterion(useCases[i]))

\* two criteria are active, one record passes them and another fails them
C1_Witness ==
  /\ view = "home"
  /\ ~NoRole /\ ~NoSearch
  /\ Len(filtered) > 0
  /\ \E i \in 1..Len(useCases) : useCases[i] \notin Range(filtered)

Unconstrained ==
  /\ NoSearch /\ NoRole /\ NoIntent
  /\ selectedTools = <<>> /\ selectedCategories = <<>> /\ selectedDifficulties = <<>>

\* C2: with every criterion unconstrained the evaluated result is the whole
\* list of use cases, in the order in which it was loaded
C2_Identity == (FlatView /\ Unconstrained) => filtered = useCases

C2_Witness ==
  /\ view = "home" /\ Unconstrained
  /\ Len(filtered) >= 2 /\ filtered[1] # filtered[2]
  /\ surpriseUseCase # NullObject

\* the members of the list that are in one of the results
InSome(list, results) ==
  Those(list, {k \in 1..Len(list) : \E i \in 1..Len(results) : list[k] \in Range(results[i])})

OnlyTools ==
  /\ view = "episodes" /\ NoSearch /\ NoRole
  /\ selectedCategories = <<>> /\ selectedTools # <<>>

OnlyContainerCategories ==
  /\ view = "episodes" /\ NoSearch /\ NoRole
  /\ selectedTools = <<>> /\ selectedCategories # <<>>

OnlyCategories ==
  /\ view = "usecases" /\ NoSearch /\ NoRole
  /\ selectedDifficulties = <<>> /\ selectedCategories # <<>>

OnlyDifficulties ==
  /\ view = "usecases" /\ NoSearch /\ NoRole
  /\ selectedCategories = <<>> /\ selectedDifficulties # <<>>

\* C3: when one multi-value facet is the only active criterion, the result for
\* a selection is the union of the results for each of its values alone
C3_UnionWithinFacet ==
  /\ OnlyTools =>
       filtered = InSome(sorted, [i \in 1..Len(selectedTools) |->
                    CatalogFiltered(sorted, <<>>, Null, <<selectedTools[i]>>, <<>>)])
  /\ OnlyContainerCategories =>
       filtered = InSome(sorted, [i \in 1..Len(selectedCategories) |->
                    CatalogFiltered(sorted, <<>>, Null, <<>>, <<selectedCategories[i]>>)])
  /\ OnlyCategories =>
       filtered = InSome(useCases, [i \in 1..Len(selectedCategories) |->
                    UseCasesFiltered(useCases, <<>>, Null, <<selectedCategories[i]>>, <<>>)])
  /\ OnlyDifficulties =>
       filtered = InSome(useCases, [i \in 1..Len(selectedDifficulties) |->
                    UseCasesFiltered(useCases, <<>>, Null, <<>>, <<selectedDifficulties[i]>>)])

\* two tools are selected and the union of their results is not the intersection
C3_Witness ==
  /\ OnlyTools /\ Len(selectedTools) = 2
  /\ \E i \in 1..Len(filtered) :
        filtered[i] \notin
          Range(CatalogFiltered(sorted, <<>>, Null, <<selectedTools[1]>>, <<>>))
  /\ \E i \in 1..Len(filtered) :
        filtered[i] \notin
          Range(CatalogFiltered(sorted, <<>>, Null, <<selectedTools[2]>>, <<>>))

\* C4: an empty selection of a facet imposes no constraint: the result is the
\* list of the records that pass the remaining criteria, and it is not empty
\* when some record passes them
C4_EmptySelectionNoConstraint ==
  /\ (view = "usecases" /\ selectedCategories = <<>>) =>
       filtered = Those(useCases, {i \in 1..Len(useCases) :
                                     /\ UseCasesSearchCriterion(useCases[i])
                                     /\ DifficultyCriterion(useCases[i])
                                     /\ RoleCriterion(useCases[i])})
  /\ (view = "usecases" /\ selectedDifficulties = <<>>) =>
       filtered = Those(useCases, {i \in 1..Len(useCases) :
                                     /\ UseCasesSearchCriterion(useCases[i])
                                     /\ CategoryCriterion(useCases[i])
                                     /\ RoleCriterion(useCases[i])})
  /\ (view = "episodes" /\ selectedTools = <<>>) =>
       filtered = Those(sorted, {i \in 1..Len(sorted) :
                                   /\ ContainerSearchCriterion(sorted[i])
                                   /\ ContainerRoleCriterion(sorted[i])
                                   /\ ContainerCategoryCriterion(sorted[i])})
  /\ (view = "episodes" /\ selectedCategories = <<>>) =>
       filtered = Those(sorted, {i \in 1..Len(sorted) :
                                   /\ ContainerSearchCriterion(sorted[i])
                                   /\ ContainerRoleCriterion(sorted[i])
                                   /\ ContainerToolCriterion(sorted[i])})

\* the category selection is empty, another criterion is active, and the
\* result is neither empty nor everything
C4_Witness ==
  /\ view = "usecases"
  /\ selectedCategories = <<>> /\ selectedDifficulties # <<>>
  /\ Len(filtered) > 0 /\ Len(filtered) < Len(useCases)

\* C5: with the role as the only active criterion a FlatRecord is in the result
\* iff its audience is the selected role or "everyone"; and whether a record
\* whose audience is "everyone" is in the result never depends on the role
C5_RoleMatching ==
  /\ (FlatView /\ ~NoRole /\ NoSearch /\ NoIntent
        /\ selectedCategories = <<>> /\ selectedDifficulties = <<>>) =>
       \A i \in 1..Len(useCases) :
          (useCases[i] \in Range(filtered))
            <=> (useCases[i].audience = selectedRole \/ useCases[i].audience = Everyone)
  /\ view = "home" =>
       \A i \in 1..Len(useCases) :
          useCases[i].audience = Everyone =>
            ((useCases[i] \in Range(filtered))
               <=> (useCases[i] \in Range(HomeFiltered(useCases, search, Null,
                                                        selectedIntent))))
  /\ view = "usecases" =>
       \A i \in 1..Len(useCases) :
          useCases[i].audience = Everyone =>
            ((useCases[i] \in Range(filtered))
               <=> (useCases[i] \in Range(UseCasesFiltered(useCases, search, Null,
                                            selectedCategories, selectedDifficulties))))

\* a role is selected; the result holds a record of that role and an "everyone"
\* record, and leaves out a record of another role
C5_Witness ==
  /\ view = "home" /\ ~NoRole
  /\ \E i \in 1..Len(filtered) : filtered[i].audience = selectedRole
  /\ \E i \in 1..Len(filtered) : filtered[i].audience = Everyone
  /\ \E i \in 1..Len(useCases) : useCases[i] \notin Range(filtered)

\* C6: with the intent as the only active criterion a record is in the result
\* iff the selected intent is one of its intents; a record whose intents are
\* absent or empty is in no result for a selected intent
C6_IntentMatching ==
  /\ (view = "home" /\ ~NoIntent /\ NoSearch /\ NoRole) =>
       \A i \in 1..Len(useCases) :
          (useCases[i] \in Range(filtered))
            <=> (/\ useCases[i].intents # Undefined
                 /\ selectedIntent \in Range(useCases[i].intents))
  /\ (view = "home" /\ ~NoIntent) =>
       \A i \in 1..Len(filtered) :
          filtered[i].intents # Undefined /\ filtered[i].intents # <<>>

\* an intent is selected; a record with that intent is in the result, a record
\* without the intents property and a record with no intents are left out
C6_Witness ==
  /\ view = "home" /\ ~NoIntent
  /\ Len(filtered) > 0
  /\ \E i \in 1..Len(useCases) : useCases[i].intents = Undefined
  /\ \E i \in 1..Len(useCases) : useCases[i].intents = <<>>

\* s without its leading and trailing spaces
RECURSIVE TrimStart(_)
TrimStart(s) == IF Len(s) > 0 /\ s[1] = " " THEN TrimStart(Tail(s)) ELSE s
RECURSIVE TrimEnd(_)
TrimEnd(s) ==
  IF Len(s) > 0 /\ s[Len(s)] = " " THEN TrimEnd(SubSeq(s, 1, Len(s) - 1)) ELSE s
Trimmed(s) == TrimEnd(TrimStart(s))

OnlySearch ==
  /\ NoRole /\ NoIntent
  /\ selectedCategories = <<>> /\ selectedDifficulties = <<>>

\* C7 as claimed: a FlatRecord passes the search iff the lowercased, trimmed
\* term occurs in the lowercase join of title, one_liner, description,
\* guest_name, episode_title, tools and category; a term that is empty after
\* trimming imposes no constraint
C7_AsClaimed ==
  (FlatView /\ OnlySearch) =>
     \A i \in 1..Len(useCases) :
        (useCases[i] \in Range(filtered))
          <=> (\/ Trimmed(Lowered(search)) = <<>>
               \/ Occurs(Trimmed(Lowered(search)), HomeSurface(useCases[i])))

\* C7 amended: the term is lowercased and not trimmed; it is looked for in the
\* lowercase join, by one space, of the non-empty values among title,
\* one_liner, description, guest_name, episode_title, tools and category in
\* the home view, and among title, description, guest_name, episode_title and
\* tools in the use-cases view; only the empty term imposes no constraint
C7_SearchMatching ==
  /\ (view = "home" /\ OnlySearch) =>
       \A i \in 1..Len(useCases) :
          (useCases[i] \in Range(filtered))
            <=> (search = <<>> \/ Occurs(Lowered(search), HomeSurface(useCases[i])))
  /\ (view = "usecases" /\ OnlySearch) =>
       \A i \in 1..Len(useCases) :
          (useCases[i] \in Range(filtered))
            <=> (search = <<>> \/ Occurs(Lowered(search), UseCasesSurface(useCases[i])))

\* the term ends with a space: one record is matched, and a record that holds
\* the trimmed term is left out
C7_Witness ==
  /\ view = "home" /\ OnlySearch
  /\ search # <<>> /\ Trimmed(search) # search
  /\ Len(filtered) > 0
  /\ \E i \in 1..Len(useCases) :
        /\ useCases[i] \notin Range(filtered)
        /\ Occurs(Trimmed(Lowered(search)), HomeSurface(useCases[i]))

\* a is b with some members left out
RECURSIVE IsSubsequence(_, _)
IsSubsequence(a, b) ==
  IF Len(a) = 0 THEN TRUE
  ELSE IF Len(b) = 0 THEN FALSE
  ELSE IF a[1] = b[1] THEN IsSubsequence(Tail(a), Tail(b))
  ELSE IsSubsequence(a, Tail(b))

\* C8: the evaluated result is a subsequence of the list it was evaluated on
\* (the use cases; for the episodes view the episodes prop): the relative
\* order is kept and nothing is repeated
C8_Subsequence ==
  /\ FlatView => IsSubsequence(filtered, useCases)
  /\ view = "episodes" => IsSubsequence(filtered, sorted)

C8_Witness ==
  /\ view = "home"
  /\ Len(filtered) >= 2 /\ Len(filtered) < Len(useCases)
  /\ filtered[1] # filtered[2]

\* C9: no step changes the loaded use cases or episodes (the lists, their
\* order, their fields), nor the episodes prop once a page is mounted; and a
\* step that changes what is displayed (expansion, picks flag, sampled record)
\* and re-evaluates leaves the query state as it was
C9_CatalogUnchanged ==
  [][/\ useCases' = useCases
     /\ episodes' = episodes
     /\ (view # "none" => sorted' = sorted)
     /\ (display' # display => query' = query)]_vars

\* the episodes were sorted into another order for display and then filtered
C9_Witness ==
  /\ view = "episodes"
  /\ sorted # episodes
  /\ selectedTools # <<>>
  /\ Len(filtered) > 0 /\ Len(filtered) < Len(sorted)

\* the category under which group_by_category files a record
GroupKey(r) == IF r.category = <<>> THEN Other ELSE r.category

Count(list, x) == Cardinality({i \in 1..Len(list) : list[i] = x})

RECURSIVE SumOfSizes(_)
SumOfSizes(groups) ==
  IF Len(groups) = 0 THEN 0 ELSE Len(groups[1][2]) + SumOfSizes(Tail(groups))

RECURSIVE CountInGroups(_, _)
CountInGroups(groups, x) ==
  IF Len(groups) = 0 THEN 0
  ELSE Count(groups[1][2], x) + CountInGroups(Tail(groups), x)

\* C10: the groups partition the evaluated result: their sizes sum to its
\* length, every record is in the group of its category and in no other, as
\* often as it is in the result, and the groups are listed by non-increasing size
C10_GroupsPartition ==
  view = "home" =>
    /\ SumOfSizes(grouped) = Len(filtered)
    /\ \A g, h \in 1..Len(grouped) : g # h => grouped[g][1] # grouped[h][1]
    /\ \A i \in 1..Len(filtered) :
         /\ CountInGroups(grouped, filtered[i]) = Count(filtered, filtered[i])
         /\ \A g \in 1..Len(grouped) :
              (filtered[i] \in Range(grouped[g][2])) <=> (grouped[g][1] = GroupKey(filtered[i]))
    /\ \A g \in 1..(Len(grouped) - 1) : Len(grouped[g][2]) >= Len(grouped[g + 1][2])

\* the group of the first record is the smaller one and is listed second
C10_Witness ==
  /\ view = "home"
  /\ Len(grouped) >= 2
  /\ Len(grouped[1][2]) > Len(grouped[2][2])
  /\ grouped[2][1] = GroupKey(filtered[1])

\* the first position at which x occurs in the list
RECURSIVE FirstOccurrenceFrom(_, _, _)
FirstOccurrenceFrom(list, x, i) ==
  IF list[i] = x THEN i ELSE FirstOccurrenceFrom(list, x, i + 1)
FirstOccurrence(list, x) == FirstOccurrenceFrom(list, x, 1)

\* C11: of two groups of equal size the one whose first member occurs earlier
\* in the evaluated list is listed first, and the members of each group are
\* the records of that category in the order they have in the evaluated list
C11_TiesAndInnerOrder ==
  view = "home" =>
    /\ \A g \in 1..Len(grouped) : Len(grouped[g][2]) > 0
    /\ \A g, h \in 1..Len(grouped) :
         (g < h /\ Len(grouped[g][2]) = Len(grouped[h][2])) =>
           FirstOccurrence(filtered, grouped[g][2][1])
             < FirstOccurrence(filtered, grouped[h][2][1])
    /\ \A g \in 1..Len(grouped) :
         grouped[g][2] = Those(filtered, {i \in 1..Len(filtered) :
                                           GroupKey(filtered[i]) = grouped[g][1]})

\* two groups have the same size, and a larger group holds two different
\* records
C11_Witness ==
  /\ view = "home"
  /\ \E g, h \in 1..Len(grouped) : g < h /\ Len(grouped[g][2]) = Len(grouped[h][2])
  /\ \E g \in 1..Len(grouped) :
        Len(grouped[g][2]) >= 2 /\ grouped[g][2][1] # grouped[g][2][2]

\* C12: the cards shown for a group, and for the picks, are a prefix of it:
\* the first min(6, size) members when it is not expanded and all of them when
\* it is, in the order of the list
C12_WindowIsPrefix ==
  view = "home" =>
    /\ \A g \in 1..Len(grouped) :
         LET members == grouped[g][2]
             window == VisibleCards(members, grouped[g][1] \in expandedCategories)
             size == IF grouped[g][1] \in expandedCategories THEN Len(members)
                     ELSE IF Len(members) < 6 THEN Len(members) ELSE 6
         IN Len(window) = size /\ \A i \in 1..size : window[i] = members[i]
    /\ LET window == VisiblePicks(filteredPicks, showAllPicks)
           size == IF showAllPicks THEN Len(filteredPicks)
                   ELSE IF Len(filteredPicks) < 6 THEN Len(filteredPicks) ELSE 6
       IN Len(window) = size /\ \A i \in 1..size : window[i] = filteredPicks[i]

\* a group of seven, whose last member differs from the others, is expanded
\* while the picks are not
C12_Witness ==
  /\ view = "home"
  /\ \E g \in 1..Len(grouped) :
        /\ grouped[g][1] \in expandedCategories
        /\ Len(grouped[g][2]) > 6
        /\ grouped[g][2][7] # grouped[g][2][1]
  /\ ~showAllPicks

\* C13: a step that changes the expansion set flips one category and no
\* other, leaves the picks flag as it was, and is undone by toggling that
\* category again; a step that flips the picks flag leaves the expansion set
\* as it was
C13_ExpansionFrame ==
  [][/\ (expandedCategories' # expandedCategories) =>
          LET flipped == (expandedCategories' \ expandedCategories)
                           \cup (expandedCategories \ expandedCategories')
          IN /\ Cardinality(flipped) = 1
             /\ showAllPicks' = showAllPicks
             /\ \A c \in flipped : ToggledSet(expandedCategories', c) = expandedCategories
     /\ (showAllPicks' # showAllPicks) => expandedCategories' = expandedCategories]_vars

\* one category is expanded, another that could be is not, and the picks
\* are expanded
C13_Witness ==
  /\ view = "home"
  /\ showAllPicks
  /\ \E g, h \in 1..Len(grouped) :
        /\ Len(grouped[g][2]) > 6 /\ grouped[g][1] \in expandedCategories
        /\ Len(grouped[h][2]) > 6 /\ grouped[h][1] \notin expandedCategories

\* C14: the picks shown are the records of the evaluated result whose is_pick
\* is true, in the order of the result: a pick of the catalog is shown iff it
\* passes the active role, intent and search criteria
C14_PicksOfEvaluated ==
  view = "home" =>
    /\ filteredPicks = Those(filtered, {i \in 1..Len(filtered) : filtered[i].is_pick})
    /\ filteredPicks = Those(useCases, {i \in 1..Len(useCases) :
                                          /\ useCases[i].is_pick
                                          /\ RoleCriterion(useCases[i])
                                          /\ IntentCriterion(useCases[i])
                                          /\ HomeSearchCriterion(useCases[i])})

\* a criterion is active; a pick is shown, a pick of the catalog is left out
\* and a record that is no pick is in the result
C14_Witness ==
  /\ view = "home"
  /\ ~NoRole \/ ~NoIntent \/ ~NoSearch
  /\ Len(filteredPicks) > 0
  /\ \E i \in 1..Len(useCases) : useCases[i].is_pick /\ useCases[i] \notin Range(filtered)
  /\ \E i \in 1..Len(filtered) : ~filtered[i].is_pick

\* a step that stores a sampled record: the close button and the mount store null
Sampled == surpriseUseCase' # surpriseUseCase /\ surpriseUseCase' # NullObject

\* C15: when the catalog is not empty a sampled record is a member of the
\* evaluated result if that is not empty, and a member of the catalog if it
\* is; a result of one record yields that record
C15_SampleFromPool ==
  [][(Sampled /\ Len(useCases) > 0) =>
       /\ Len(filtered) > 0 => \E i \in 1..Len(filtered) : surpriseUseCase' = filtered[i]
       /\ Len(filtered) = 0 => \E i \in 1..Len(useCases) : surpriseUseCase' = useCases[i]
       /\ Len(filtered) = 1 => surpriseUseCase' = filtered[1]]_vars

\* the result is empty, the catalog holds two different records, and the
\* second of them is the sampled one
C15_Witness ==
  /\ view = "home"
  /\ Len(filtered) = 0
  /\ Len(useCases) >= 2 /\ useCases[1] # useCases[2]
  /\ surpriseUseCase = useCases[2]

\* C16, as claimed: sampling on a catalog of zero records fails and stores
\* nothing as the sampled record, so with an empty catalog the sampled record
\* is never anything but the null it was mounted with.  (handleSurpriseMe has
\* no failing outcome at all: it stores pool[0] of the empty pool.)
C16_AsClaimed ==
  (view = "home" /\ Len(useCases) = 0) => surpriseUseCase = NullObject

\* the catalog is empty and undefined is stored as the sampled record
C16_Witness ==
  /\ view = "home"
  /\ Len(useCases) = 0
  /\ surpriseUseCase = UndefinedObject

\* what the next draw is made from
SamplePool == IF Len(filtered) > 0 THEN filtered ELSE useCases

\* C17: in every state of the home view, whatever the sampled record is, each
\* member of the evaluated result (of the catalog when the result is empty)
\* can be the outcome of the next draw, the record drawn last included
C17_EveryMemberPossible ==
  view = "home" =>
    \A i \in 1..Len(SamplePool) :
       ENABLED (handleSurpriseMe /\ surpriseUseCase' = SamplePool[i])

\* a record was drawn, and it is one of two different records the next draw
\* is made from
C17_Witness ==
  /\ view = "home"
  /\ \E i, j \in 1..Len(SamplePool) :
        SamplePool[i] # SamplePool[j] /\ surpriseUseCase = SamplePool[j]

\* how often v occurs in the list
Tally(occ, v) == Cardinality({i \in 1..Len(occ) : occ[i] = v})

\* the list is facet_counts of the occurrences: each value once, with its
\* count, a value of larger count first and, of two values of equal count,
\* the one that occurs first
IsFacetCounts(list, occ) ==
  LET l == list
      o == occ
  IN /\ Len(l) = Cardinality(Range(o))
     /\ \A v \in Range(o) : \E i \in 1..Len(l) : l[i][1] = v
     /\ \A i \in 1..Len(l) : l[i][2] = Tally(o, l[i][1])
     /\ \A i \in 1..(Len(l) - 1) :
           \/ l[i][2] > l[i + 1][2]
           \/ /\ l[i][2] = l[i + 1][2]
              /\ FirstOccurrence(o, l[i][1]) < FirstOccurrence(o, l[i + 1][1])

FirstN(list, n) == [i \in 1..(IF Len(list) < n THEN Len(list) ELSE n) |-> list[i]]

Values(pairs) == [i \in 1..Len(pairs) |-> pairs[i][1]]

\* the tools of the episodes, one occurrence for each element of each
\* tools_mentioned list, in the order of the episode list
RECURSIVE ToolOccurrences(_)
ToolOccurrences(eps) ==
  IF Len(eps) = 0 THEN <<>>
  ELSE (IF eps[1].analysis = NullObject THEN <<>> ELSE eps[1].analysis.tools_mentioned)
       \o ToolOccurrences(Tail(eps))

\* the non-empty categories of the records, one occurrence for each record
CategoryOccurrences(ucs) ==
  Those([i \in 1..Len(ucs) |-> ucs[i].category],
        {i \in 1..Len(ucs) : ucs[i].category # <<>>})

\* the episodes page as it is mounted, before any query: the lists of the tool
\* filter and of the stats are computed then, from the props, and no later
\* step changes them
Mounted == view = "episodes" /\ Unconstrained

\* C18 as claimed: the counted tools and categories are listed by
\* non-increasing count, values of equal count in the order in which they are
\* first seen in the canonical iteration of the catalog (the episodes and use
\* cases as loaded); the tool filter is the first 15 tools of that list, the
\* stats the first 8 tools and the first 6 categories
C18_AsClaimed ==
  Mounted =>
    LET tools == SortByCount(counts(sorted))
        statsTools == SortByCount(toolCounts(sorted))
        categories == SortByCount(catCounts(useCases))
    IN /\ IsFacetCounts(tools, ToolOccurrences(episodes))
       /\ IsFacetCounts(statsTools, ToolOccurrences(episodes))
       /\ IsFacetCounts(categories, CategoryOccurrences(useCases))
       /\ topTools = Values(FirstN(tools, 15))
       /\ StatsTopTools(sorted) = FirstN(statsTools, 8)
       /\ StatsTopCategories(useCases) = FirstN(categories, 6)

\* C18 amended: tools of equal count are in the order in which they are first
\* seen in the episodes prop, which is the newest-first copy of the episodes
\* and not the canonical order; categories of equal count are in the order in
\* which they are first seen in the use cases as loaded.  The tool filter is
\* the first 15 tools, the stats the first 8 tools and the first 6 categories
C18_FacetCounts ==
  Mounted =>
    LET tools == SortByCount(counts(sorted))
        statsTools == SortByCount(toolCounts(sorted))
        categories == SortByCount(catCounts(useCases))
    IN /\ IsFacetCounts(tools, ToolOccurrences(sorted))
       /\ IsFacetCounts(statsTools, ToolOccurrences(sorted))
       /\ IsFacetCounts(categories, CategoryOccurrences(useCases))
       /\ topTools = Values(FirstN(tools, 15))
       /\ StatsTopTools(sorted) = FirstN(statsTools, 8)
       /\ StatsTopCategories(useCases) = FirstN(categories, 6)

\* more tools are counted than the filter shows and more categories than the
\* stats show, tools tie, and the episodes prop is not in the loaded order
C18_Witness ==
  /\ Mounted
  /\ sorted # episodes
  /\ Len(counts(sorted)) > 15 /\ Len(topTools) = 15
  /\ Len(catCounts(useCases)) > 6
  /\ \E i \in 1..14 : Tally(ToolOccurrences(sorted), topTools[i])
                         = Tally(ToolOccurrences(sorted), topTools[i + 1])

\* the sum of the counts of a list of <<value, count>> pairs
RECURSIVE SumOfCounts(_)
SumOfCounts(pairs) ==
  IF Len(pairs) = 0 THEN 0 ELSE pairs[1][2] + SumOfCounts(Tail(pairs))

\* the tools_mentioned collection of an episode
ToolCollection(ep) ==
  IF ep.analysis = NullObject THEN <<>> ELSE ep.analysis.tools_mentioned

\* the number of elements of the collections of the episodes that are v
RECURSIVE ElementsEqual(_, _)
ElementsEqual(eps, v) ==
  IF Len(eps) = 0 THEN 0
  ELSE Tally(ToolCollection(eps[1]), v) + ElementsEqual(Tail(eps), v)

\* the number of elements of the collections of the episodes
RECURSIVE ElementsInAll(_)
ElementsInAll(eps) ==
  IF Len(eps) = 0 THEN 0 ELSE Len(ToolCollection(eps[1])) + ElementsInAll(Tail(eps))

\* C19: the count of a tool is the number of elements equal to it in the
\* tools_mentioned collections of the episodes, so the tool counts sum to the
\* number of elements of all the collections; the count of a category is the
\* number of use cases that have it, and a use case with an empty category
\* adds to no count
C19_CountingRule ==
  Mounted =>
    LET tools == counts(sorted)
        statsTools == toolCounts(sorted)
        categories == catCounts(useCases)
    IN /\ \A i \in 1..Len(tools) : tools[i][2] = ElementsEqual(sorted, tools[i][1])
       /\ SumOfCounts(tools) = ElementsInAll(sorted)
       /\ \A i \in 1..Len(statsTools) :
            statsTools[i][2] = ElementsEqual(sorted, statsTools[i][1])
       /\ SumOfCounts(statsTools) = ElementsInAll(sorted)
       /\ \A i \in 1..Len(categories) :
            /\ categories[i][1] # <<>>
            /\ categories[i][2]
                 = Cardinality({k \in 1..Len(useCases) :
                                  useCases[k].category = categories[i][1]})
       /\ SumOfCounts(categories)
            = Cardinality({k \in 1..Len(useCases) : useCases[k].category # <<>>})

\* an episode lists one tool twice, and a tool that no episode lists twice
\* is listed by two episodes
C19_Witness ==
  /\ Mounted
  /\ \E i \in 1..Len(sorted) :
        \E v \in Range(ToolCollection(sorted[i])) : Tally(ToolCollection(sorted[i]), v) = 2
  /\ \E i \in 1..Len(toolCounts(sorted)) :
        toolCounts(sorted)[i][2] = 2 /\ \A j \in 1..Len(sorted) :
           Tally(ToolCollection(sorted[j]), toolCounts(sorted)[i][1]) < 2

\* the list holds each value of the set that is not empty exactly once, and
\* nothing else
EachNonEmptyOnce(list, occurring) ==
  /\ \A v \in occurring : (v # <<>> /\ v # Null) => Tally(list, v) = 1
  /\ \A i \in 1..Len(list) :
        list[i] \in occurring /\ list[i] # <<>> /\ list[i] # Null

CategoriesOf(ucs) == {ucs[i].category : i \in 1..Len(ucs)}
AudiencesOf(ucs) == {ucs[i].audience : i \in 1..Len(ucs)}
DifficultiesOf(ucs) == {ucs[i].difficulty : i \in 1..Len(ucs)}
ToolsOf(eps) == UNION {Range(ToolCollection(eps[i])) : i \in 1..Len(eps)}

\* C20, the value lists: the tools, categories, audiences and difficulties
\* handed to the views hold each non-empty value of the catalog exactly once
\* and no empty value
C20_ValueSets ==
  /\ view = "home" => EachNonEmptyOnce(allAudiences, AudiencesOf(useCases))
  /\ view = "usecases" =>
       /\ EachNonEmptyOnce(allCategories, CategoriesOf(useCases))
       /\ EachNonEmptyOnce(allDifficulties, DifficultiesOf(useCases))
       /\ EachNonEmptyOnce(allAudiences, AudiencesOf(useCases))
  /\ view = "episodes" =>
       /\ EachNonEmptyOnce(allCategories, CategoriesOf(useCases))
       /\ EachNonEmptyOnce(allAudiences, AudiencesOf(useCases))
       /\ EachNonEmptyOnce(getAllTools(episodes), ToolsOf(episodes))

\* C20, the category total of the stats bar: the number of distinct non-empty
\* categories of the catalog
C20_CategoryTotal ==
  view = "home" =>
    totalCategories(useCases)
      = Cardinality({c \in CategoriesOf(useCases) : c # <<>> /\ c # Null})

\* C20 as claimed: every facet value set derived from the catalog, the
\* category total of the stats bar included, holds each distinct non-empty
\* value exactly once and no falsy or empty value
C20_AsClaimed == C20_ValueSets /\ C20_CategoryTotal

\* a use case has an empty category, another has one, and the total counts both
C20_Witness ==
  /\ view = "home"
  /\ \E i \in 1..Len(useCases) : useCases[i].category = <<>>
  /\ totalCategories(useCases) = 2
  /\ Cardinality({c \in CategoriesOf(useCases) : c # <<>>}) = 1

\* a criterion of the mounted view is active
Constrained == ~Unconstrained

\* C21: the options offered for roles, categories, difficulties and tools are
\* computed from the whole catalog when a page is mounted (the roles are the
\* audiences of all use cases but "everyone", the categories and difficulties
\* those of all use cases, the tools the 15 most mentioned of all episodes),
\* and no later step, whatever it does to the query and to the result, changes
\* them or the catalog: in every state they are the lists of the whole catalog
C21_OptionsCatalogWide ==
  [][/\ (view = "none" /\ view' # "none") =>
          /\ allAudiences' = getAllAudiences(useCases')
          /\ Roles' = SelectSeq(getAllAudiences(useCases'), LAMBDA a : a # Everyone)
          /\ view' \in {"usecases", "episodes"} =>
               allCategories' = getAllCategories(useCases')
          /\ view' = "usecases" => allDifficulties' = getAllDifficulties(useCases')
          /\ view' = "episodes" => topTools' = TopTools(sorted')
     /\ view # "none" =>
          /\ <<allAudiences', allCategories', allDifficulties', topTools'>>
               = <<allAudiences, allCategories, allDifficulties, topTools>>
          /\ <<useCases', episodes', sorted'>> = <<useCases, episodes, sorted>>]_vars

\* a query leaves out every record of a category and of a difficulty that are
\* still offered as options
C21_Witness ==
  /\ view = "usecases" /\ Constrained
  /\ Len(filtered) > 0
  /\ \E c \in Range(allCategories) : \A i \in 1..Len(filtered) : filtered[i].category # c
  /\ \E d \in Range(allDifficulties) :
        \A i \in 1..Len(filtered) : filtered[i].difficulty # d

\* the required scalar fields of a Container that the model carries are there
WellFormedContainer(ep) ==
  ep.id # Undefined /\ ep.title # Undefined /\ ep.publish_date # Undefined

\* the required scalar fields of a FlatRecord that the model carries are there
WellFormedRecord(r) ==
  /\ r.title # Undefined /\ r.description # Undefined /\ r.category # Undefined
  /\ r.audience # Undefined /\ r.difficulty # Undefined
  /\ r.episode_id # Undefined /\ r.episode_title # Undefined

\* C22, as claimed: a load of input in which a record lacks a required scalar
\* field aborts, so no page is ever mounted on a catalog that holds such a
\* record.  (getEpisodes and getUseCases return JSON.parse(raw) unchecked.)
C22_AsClaimed ==
  view # "none" =>
    /\ \A i \in 1..Len(episodes) : WellFormedContainer(episodes[i])
    /\ \A i \in 1..Len(useCases) : WellFormedRecord(useCases[i])

\* the episodes page is mounted on a file with an episode that has no title,
\* a search is active and that episode is in the evaluated result
C22_Witness ==
  /\ view = "episodes"
  /\ ~NoSearch
  /\ \E i \in 1..Len(filtered) : ~WellFormedContainer(filtered[i])

\* the Container has a nested UseCase whose audience is the role or "everyone"
RoleMatchesNested(ep, role) ==
  \E uc \in NestedUseCases(ep) : uc.audience = role \/ uc.audience = Everyone

\* C23: in the episodes view, with a role selected, an episode of the list is
\* in the result iff it passes the other criteria and one of its nested use
\* cases has the selected role or "everyone" as audience; with no role
\* selected the episodes in the result are those that pass the other criteria
C23_ContainerRole ==
  view = "episodes" =>
    LET others == CatalogFiltered(sorted, search, Null, selectedTools, selectedCategories)
    IN /\ ~NoRole =>
            \A i \in 1..Len(sorted) :
               (sorted[i] \in Range(filtered))
                 <=> (sorted[i] \in Range(others) /\ RoleMatchesNested(sorted[i], selectedRole))
       /\ NoRole => filtered = others

\* a role is the only criterion: one episode is in the result for a use case
\* of that role, one for an "everyone" use case only, and one that has use
\* cases, none of them matching, is left out
C23_Witness ==
  /\ view = "episodes" /\ ~NoRole /\ NoSearch
  /\ selectedTools = <<>> /\ selectedCategories = <<>>
  /\ \E i \in 1..Len(filtered) :
        \E uc \in NestedUseCases(filtered[i]) : uc.audience = selectedRole
  /\ \E i \in 1..Len(filtered) :
        \A uc \in NestedUseCases(filtered[i]) : uc.audience # selectedRole
  /\ \E i \in 1..Len(sorted) :
        sorted[i] \notin Range(filtered) /\ NestedUseCases(sorted[i]) # {}

\* the home view of the catalog of three records with the role "designer" as
\* the only criterion
DesignerOfThree ==
  /\ view = "home" /\ useCases = ThreeRecords
  /\ selectedRole = Designer /\ NoSearch /\ NoIntent

\* C24 as claimed: for the three records and the role "designer" the result
\* is the first two records and the groups are the one group of "coding"
C24_AsClaimed ==
  DesignerOfThree =>
    /\ filtered = <<ThreeRecords[1], ThreeRecords[2]>>
    /\ grouped = << <<Coding, <<ThreeRecords[1], ThreeRecords[2]>>>> >>

\* C24 amended: the third record, whose audience is "everyone", passes the
\* role criterion as the first does; the result is the three records and the
\* groups are "coding" with the first two and "writing" with the third
C24_Example ==
  DesignerOfThree =>
    /\ filtered = ThreeRecords
    /\ grouped = << <<Coding, <<ThreeRecords[1], ThreeRecords[2]>>>>,
                    <<Writing, <<ThreeRecords[3]>>>> >>

\* the example state, with the audiences and categories the example gives
C24_Witness ==
  /\ DesignerOfThree
  /\ [i \in 1..3 |-> useCases[i].audience] = <<Everyone, Designer, Everyone>>
  /\ [i \in 1..3 |-> useCases[i].category] = <<Coding, Coding, Writing>>

\* the list the evaluator of the mounted view is given: the use cases as
\* loaded, and for the episodes view the episodes sorted by publish date
EvaluatedCatalog == IF view = "episodes" THEN sorted ELSE useCases

C26_ViewsOfCurrentState ==
  /\ view = "home" =>
       /\ filtered = HomeFiltered(useCases, search, selectedRole, selectedIntent)
       /\ grouped = Grouped(filtered)
       /\ filteredPicks = FilteredPicks(filtered)
  /\ view = "usecases" =>
       filtered = UseCasesFiltered(useCases, search, selectedRole, selectedCategories,
                                   selectedDifficulties)
  /\ view = "episodes" =>
       filtered = CatalogFiltered(sorted, search, selectedRole, selectedTools,
                                  selectedCategories)

\* the query was changed after a record was drawn: the record on display is
\* of the catalog and not of the current result, which is part of the catalog
C26_Witness ==
  /\ view = "home" /\ Constrained
  /\ Len(filtered) > 0 /\ Len(filtered) < Len(useCases)
  /\ surpriseUseCase \in Range(useCases) \ Range(filtered)

\* C27: a step that changes the search term, the role or the intent, and
\* every "clear filters" step, leaves the expanded categories, the picks flag
\* and the sampled record as they were, also when the sampled record is not
\* in the new result
C27_QueryStepsKeepDisplay ==
  [][/\ (search' # search \/ selectedRole' # selectedRole
            \/ selectedIntent' # selectedIntent) =>
          /\ expandedCategories' = expandedCategories
          /\ showAllPicks' = showAllPicks
          /\ surpriseUseCase' = surpriseUseCase
     /\ ClearFilters =>
          /\ expandedCategories' = expandedCategories
          /\ showAllPicks' = showAllPicks
          /\ surpriseUseCase' = surpriseUseCase]_vars

\* a category was expanded and a record drawn, and then the query changed:
\* the record on display is not in the result and the category is still
\* expanded
C27_Witness ==
  /\ view = "home" /\ Constrained
  /\ Len(filtered) > 0
  /\ surpriseUseCase \in Range(useCases) \ Range(filtered)
  /\ expandedCategories # {}

\* C28: an episode is in the result iff it passes each criterion on its own:
\* the search, a nested use case of the role or of "everyone", a mentioned
\* tool among the selected ones, and a nested use case, not necessarily the
\* same one, of a selected category; and an episode whose analysis is absent
\* is in no result when a role, a tool or a category is selected
C28_PerContainer ==
  view = "episodes" =>
    \A i \in 1..Len(sorted) :
       /\ (sorted[i] \in Range(filtered))
             <=> /\ ContainerSearchCriterion(sorted[i])
                 /\ ContainerRoleCriterion(sorted[i])
                 /\ ContainerToolCriterion(sorted[i])
                 /\ ContainerCategoryCriterion(sorted[i])
       /\ (/\ sorted[i].analysis = NullObject
           /\ ~NoRole \/ selectedTools # <<>> \/ selectedCategories # <<>>)
             => sorted[i] \notin Range(filtered)

\* a role and a category are selected; an episode is in the result that has
\* no use case matching both, and an episode without analysis is left out
C28_Witness ==
  /\ view = "episodes"
  /\ ~NoRole /\ selectedCategories # <<>>
  /\ \E i \in 1..Len(filtered) :
        \A uc \in NestedUseCases(filtered[i]) :
           ~(/\ uc.audience \in {selectedRole, Everyone}
             /\ uc.category \in Range(selectedCategories))
  /\ \E i \in 1..Len(sorted) :
        sorted[i].analysis = NullObject /\ sorted[i] \notin Range(filtered)

\* C29: there is one group keyed "other" for the records of the result whose
\* category is empty and for those whose category is "other", and it holds
\* nothing else; no group has an empty key and no group is without members
C29_OtherGroup ==
  view = "home" =>
    /\ \A g \in 1..Len(grouped) : grouped[g][1] # <<>> /\ grouped[g][2] # <<>>
    /\ Cardinality({g \in 1..Len(grouped) : grouped[g][1] = Other}) <= 1
    /\ \A i \in 1..Len(filtered) :
         (filtered[i].category = <<>> \/ filtered[i].category = Other)
           <=> \E g \in 1..Len(grouped) :
                  grouped[g][1] = Other /\ filtered[i] \in Range(grouped[g][2])

\* the group "other" holds a record without a category and a record of the
\* category "other", and there is another group
C29_Witness ==
  /\ view = "home"
  /\ Len(grouped) >= 2
  /\ \E g \in 1..Len(grouped) :
        /\ grouped[g][1] = Other
        /\ \E k \in 1..Len(grouped[g][2]) : grouped[g][2][k].category = <<>>
        /\ \E k \in 1..Len(grouped[g][2]) : grouped[g][2][k].category = Other

\* no value is in the selection twice
NoValueTwice(sel) == \A i, j \in 1..Len(sel) : i # j => sel[i] # sel[j]

\* the selected values in the order in which the filter lists its tags: one
\* selection for each set of selected values
InTagOrder(sel, tags) == SelectSeq(tags, LAMBDA t : t \in Range(sel))

\* the values whose membership differs between two selections
Flipped(old, new) == (Range(old) \ Range(new)) \cup (Range(new) \ Range(old))

\* a step that is a tag toggle of the selection: it changes it and is not the
\* reset of "clear all filters"
ToggleStep(old, new) == new # old /\ ~(new = <<>> /\ Len(old) > 1)

\* C30: the selections of the tag filters are empty at the mount, and every
\* toggle flips the membership of one value and of no other, so that a value
\* is selected iff it was toggled an odd number of times; no selection ever
\* holds a value twice; and when the values were selected in another order
\* than that of the tag list, the result is the one for the same values in
\* the order of the tag list, so that it is the same for every order in which
\* the values could have been selected
C30_ToggleAlgebra ==
  /\ [](/\ NoValueTwice(selectedTools) /\ NoValueTwice(selectedCategories)
        /\ NoValueTwice(selectedDifficulties)
        /\ view = "episodes" =>
             LET ts == InTagOrder(selectedTools, topTools)
                 cs == InTagOrder(selectedCategories, allCategories)
             IN (ts # selectedTools \/ cs # selectedCategories) =>
                  filtered = CatalogFiltered(sorted, search, selectedRole, ts, cs)
        /\ view = "usecases" =>
             LET cs == InTagOrder(selectedCategories, allCategories)
                 ds == InTagOrder(selectedDifficulties, allDifficulties)
             IN (cs # selectedCategories \/ ds # selectedDifficulties) =>
                  filtered = UseCasesFiltered(useCases, search, selectedRole, cs, ds))
  /\ [][/\ ToggleStep(selectedTools, selectedTools') =>
             Cardinality(Flipped(selectedTools, selectedTools')) = 1
        /\ ToggleStep(selectedCategories, selectedCategories') =>
             Cardinality(Flipped(selectedCategories, selectedCategories')) = 1
        /\ ToggleStep(selectedDifficulties, selectedDifficulties') =>
             Cardinality(Flipped(selectedDifficulties, selectedDifficulties')) = 1]_vars

\* two tools were selected, the first of them was toggled off and on again,
\* so that the selection is not in the order of the filter, and the result
\* is part of the list
C30_Witness ==
  /\ view = "episodes"
  /\ Len(selectedTools) = 2
  /\ \E i, j \in 1..Len(topTools) :
        i < j /\ selectedTools = <<topTools[j], topTools[i]>>
  /\ Len(filtered) > 0 /\ Len(filtered) < Len(sorted)

====
